---------------------------- MODULE Spec2Model ----------------------------
(***************************************************************************)
(* A model of geet's declarative command line (src/geet.py): subcommands   *)
(* are derived from handler docstrings by _add_subcommand and dispatched   *)
(* by main through argparse.                                               *)
(*                                                                         *)
(* Text is modelled character by character: a Python str is a sequence of  *)
(* one-character strings, so that split, strip, dedent, slicing and the    *)
(* re-wrapping regular expression are computed the way the code computes   *)
(* them.                                                                   *)
(***************************************************************************)
EXTENDS Integers, Sequences, FiniteSets, TLC

(***************************************************************************)
(* Python str operations used by _add_subcommand                           *)
(***************************************************************************)

\* str.isspace for one character (the characters \s of re matches too)
IsSpace(c) == c \in {" ", "\t", "\n"}

SetMin(S) == CHOOSE x \in S : \A y \in S : x <= y

SetMax(S) == CHOOSE x \in S : \A y \in S : x >= y

\* s[n:]
drop(s, n) == SubSeq(s, n + 1, Len(s))

\* s[:-n]
droplast(s, n) == SubSeq(s, 1, Len(s) - n)

\* s.startswith(p)
startswith(s, p) == Len(p) <= Len(s) /\ SubSeq(s, 1, Len(p)) = p

\* s.endswith(p)
endswith(s, p) == Len(p) <= Len(s) /\ SubSeq(s, Len(s) - Len(p) + 1, Len(s)) = p

\* c in s, for a one-character c
contains(s, c) == \E i \in 1..Len(s) : s[i] = c

\* s.find(sep) + 1: the first place sep occurs at, 0 when nowhere
find(s, sep) ==
    LET hits == {i \in 1..(Len(s) - Len(sep) + 1) : SubSeq(s, i, i + Len(sep) - 1) = sep}
    IN  IF hits = {} THEN 0 ELSE SetMin(hits)

\* s.split(sep): every occurrence of sep separates, so n occurrences give n+1 parts
RECURSIVE split(_, _)
split(s, sep) ==
    LET i == find(s, sep)
    IN  IF i = 0 THEN <<s>>
        ELSE <<SubSeq(s, 1, i - 1)>> \o split(drop(s, i + Len(sep) - 1), sep)

\* sep.join(parts)
RECURSIVE join(_, _)
join(parts, sep) ==
    IF parts = <<>> THEN <<>>
    ELSE IF Len(parts) = 1 THEN parts[1]
    ELSE parts[1] \o sep \o join(Tail(parts), sep)

\* s.strip()
strip(s) ==
    LET keep == {i \in 1..Len(s) : ~IsSpace(s[i])}
    IN  IF keep = {} THEN <<>> ELSE SubSeq(s, SetMin(keep), SetMax(keep))

(***************************************************************************)
(* textwrap.dedent, as _add_subcommand applies it to each paragraph        *)
(***************************************************************************)

\* the leading run of blanks and tabs of a line
RECURSIVE LeadingBlank(_)
LeadingBlank(line) ==
    IF line # <<>> /\ line[1] \in {" ", "\t"}
    THEN <<line[1]>> \o LeadingBlank(Tail(line))
    ELSE <<>>

\* the longest common prefix of two strings
RECURSIVE CommonPrefix(_, _)
CommonPrefix(a, b) ==
    IF a # <<>> /\ b # <<>> /\ a[1] = b[1]
    THEN <<a[1]>> \o CommonPrefix(Tail(a), Tail(b))
    ELSE <<>>

RECURSIVE Margin(_)
Margin(indents) ==
    IF Len(indents) = 1 THEN indents[1]
    ELSE CommonPrefix(indents[1], Margin(Tail(indents)))

\* textwrap.dedent(text): lines of blanks only become empty, then the margin
\* common to the other lines is removed from each of them
dedent(text) ==
    LET lines    == split(text, <<"\n">>)
        BlankOut(l) == IF LeadingBlank(l) = l THEN <<>> ELSE l
        norm     == [i \in 1..Len(lines) |-> BlankOut(lines[i])]
        NonEmpty(l) == l # <<>>
        filled   == SelectSeq(norm, NonEmpty)
        indents  == [i \in 1..Len(filled) |-> LeadingBlank(filled[i])]
        margin   == IF indents = <<>> THEN <<>> ELSE Margin(indents)
        Cut(l)   == IF startswith(l, margin) THEN drop(l, Len(margin)) ELSE l
    IN  join([i \in 1..Len(norm) |-> Cut(norm[i])], <<"\n">>)

(***************************************************************************)
(* The docstring grammar of _add_subcommand (src/geet.py lines 169-198)    *)
(***************************************************************************)

\* "Args:\n", the header line 177 looks for
ArgsHeader == <<"A", "r", "g", "s", ":", "\n">>

\* "Aliases:", the header line 185 looks for
AliasesHeader == <<"A", "l", "i", "a", "s", "e", "s", ":">>

\* ": ", the separator of lines 172 and 198
Separator == <<":", " ">>

\* x[5:] of line 178 drops "Args:" and keeps the newline
ArgsSlice == 5

\* paragraphs[index][9:] of line 186 drops "Aliases:" and one more character
AliasesSlice == 9

\* the {4,} of the regular expression of line 196
ContinuationIndent == 4

\* flags.index(True): the place of the first TRUE, 0 when there is none
\* (where Python raises ValueError)
IndexOfTrue(flags) ==
    LET hits == {i \in 1..Len(flags) : flags[i]}
    IN  IF hits = {} THEN 0 ELSE SetMin(hits)

\* del xs[i]
Delete(xs, i) == SubSeq(xs, 1, i - 1) \o SubSeq(xs, i + 1, Len(xs))

\* line 170: [textwrap.dedent(s) for s in docstr.strip().split("\n\n")]
Paragraphs(docstr) ==
    LET parts == split(strip(docstr), <<"\n", "\n">>)
    IN  [i \in 1..Len(parts) |-> dedent(parts[i])]

\* where the white space starting at i ends (the first place past it)
RunEnd(s, i) == SetMin({j \in i..(Len(s) + 1) : j > Len(s) \/ ~IsSpace(s[j])})

\* where a match of \s*\n\s{4,} starting at i ends, 0 when there is none: the
\* greedy \s{4,} takes the white space to its end, so a match is the rest of
\* the run, and there is one when a newline of the run has 4 or more
\* white-space characters after it
MatchEnd(s, i) ==
    LET j == RunEnd(s, i)
    IN  IF \E p \in i..(j - 1) : s[p] = "\n" /\ (j - 1) - p >= ContinuationIndent
        THEN j ELSE 0

\* line 196: re.sub(r"\s*\n\s{4,}", " ", s): the leftmost match is replaced
\* by one space, and the search goes on behind it
RECURSIVE resub(_)
resub(s) ==
    LET starts == {i \in 1..Len(s) : MatchEnd(s, i) # 0}
        i      == SetMin(starts)
    IN  IF starts = {} THEN s
        ELSE SubSeq(s, 1, i - 1) \o <<" ">> \o resub(drop(s, MatchEnd(s, i) - 1))

\* lines 196-198: the re-wrapped Args body, split into stripped lines, the
\* empty ones dropped, each split at every ": "
ArgLines(body) ==
    LET args  == resub(body)
        raw   == split(args, <<"\n">>)
        lines == [i \in 1..Len(raw) |-> strip(raw[i])]
        NonEmpty(x) == x # <<>>
        kept  == SelectSeq(lines, NonEmpty)
    IN  [i \in 1..Len(kept) |-> split(kept[i], Separator)]

\* lines 183-191 on the paragraphs left after the Args: paragraph was taken
\* out: the Aliases: paragraph is found and deleted, the others are the long
\* help
TakeAliases(head, args_list, paragraphs) ==
    LET IsAliases(x) == startswith(x, AliasesHeader)
        aliasAt == IndexOfTrue([i \in 1..Len(paragraphs) |-> IsAliases(paragraphs[i])])
        names   == split(drop(paragraphs[aliasAt], AliasesSlice), <<",">>)
    IN  [head      |-> head,
         aliases   |-> IF aliasAt = 0 THEN <<>>
                       ELSE [i \in 1..Len(names) |-> strip(names[i])],
         args_list |-> args_list,
         longhelp  |-> join(IF aliasAt = 0 THEN paragraphs ELSE Delete(paragraphs, aliasAt),
                            <<"\n", "\n">>)]

\* lines 175-181 on the paragraphs after the first: args_list is every
\* paragraph that starts with "Args:\n", without these five characters, and
\* the first such paragraph is deleted
TakeArgs(head, paragraphs) ==
    LET IsArgs(x) == startswith(x, ArgsHeader)
        argsAt   == IndexOfTrue([i \in 1..Len(paragraphs) |-> IsArgs(paragraphs[i])])
        withArgs == SelectSeq(paragraphs, IsArgs)
    IN  TakeAliases(head,
                    [i \in 1..Len(withArgs) |-> drop(withArgs[i], ArgsSlice)],
                    IF argsAt = 0 THEN paragraphs ELSE Delete(paragraphs, argsAt))

\* lines 172-173: head is paragraphs[0].split(": "), which line 172 unpacks
\* into exactly two names
TakeHead(paragraphs) == TakeArgs(split(paragraphs[1], Separator), Tail(paragraphs))

\* lines 169-191: what _add_subcommand reads from the docstring before it
\* touches the parser
ParseDocstring(docstr) == TakeHead(Paragraphs(docstr))

(***************************************************************************)
(* The handler docstrings that are registered: the two of the repository   *)
(* and nine more that exercise the other branches of _add_subcommand       *)
(***************************************************************************)

\* the docstring of testing (src/geet.py lines 239-247, src/geet_test.py lines 8-16)
\*   'testing: testing the cli api\n'
\*   '\n'
\*   '    Aliases: t, test\n'
\*   '\n'
\*   '    Args:\n'
\*   '       branch: branch to integrate\n'
\*   '       files...: One or more files.\n'
\*   '       -k|--kill: kill\n'
\*   '    '
Doc_testing ==
       <<"t","e","s","t","i","n","g",":"," ","t","e","s","t","i","n","g"," ","t","h","e"," ","c","l","i"," ","a","p","i","\n">>
    \o <<"\n">>
    \o <<" "," "," "," ","A","l","i","a","s","e","s",":"," ","t",","," ","t","e","s","t","\n">>
    \o <<"\n">>
    \o <<" "," "," "," ","A","r","g","s",":","\n">>
    \o <<" "," "," "," "," "," "," ","b","r","a","n","c","h",":"," ","b","r","a","n","c","h"," ","t","o"," ","i","n","t","e","g","r","a","t","e","\n">>
    \o <<" "," "," "," "," "," "," ","f","i","l","e","s",".",".",".",":"," ","O","n","e"," ","o","r"," ","m","o","r","e"," ","f","i","l","e","s",".","\n">>
    \o <<" "," "," "," "," "," "," ","-","k","|","-","-","k","i","l","l",":"," ","k","i","l","l","\n">>
    \o <<" "," "," "," ">>

\* the docstring of foobar (src/geet.py lines 252-255, src/geet_test.py lines 21-24)
\*   'foobar: foo the bars\n'
\*   '\n'
\*   '    foo foo bar bar\n'
\*   '    '
Doc_foobar ==
       <<"f","o","o","b","a","r",":"," ","f","o","o"," ","t","h","e"," ","b","a","r","s","\n">>
    \o <<"\n">>
    \o <<" "," "," "," ","f","o","o"," ","f","o","o"," ","b","a","r"," ","b","a","r","\n">>
    \o <<" "," "," "," ">>

\* a command whose alias t is also an alias of testing
\*   'tidy: tidy up\n'
\*   '\n'
\*   '    Aliases: ty, t\n'
\*   '    '
Doc_tidy ==
       <<"t","i","d","y",":"," ","t","i","d","y"," ","u","p","\n">>
    \o <<"\n">>
    \o <<" "," "," "," ","A","l","i","a","s","e","s",":"," ","t","y",","," ","t","\n">>
    \o <<" "," "," "," ">>

\* a string flag, the form line 157 documents
\*   'note: add a note\n'
\*   '\n'
\*   '    Args:\n'
\*   '       -c|--comment=string: text\n'
\*   '    '
Doc_note ==
       <<"n","o","t","e",":"," ","a","d","d"," ","a"," ","n","o","t","e","\n">>
    \o <<"\n">>
    \o <<" "," "," "," ","A","r","g","s",":","\n">>
    \o <<" "," "," "," "," "," "," ","-","c","|","-","-","c","o","m","m","e","n","t","=","s","t","r","i","n","g",":"," ","t","e","x","t","\n">>
    \o <<" "," "," "," ">>

\* an int flag and a repeated int flag
\*   'count: count things\n'
\*   '\n'
\*   '    Args:\n'
\*   '       -n|--num=int: how many\n'
\*   '       -m|--many=int...: each\n'
\*   '    '
Doc_count ==
       <<"c","o","u","n","t",":"," ","c","o","u","n","t"," ","t","h","i","n","g","s","\n">>
    \o <<"\n">>
    \o <<" "," "," "," ","A","r","g","s",":","\n">>
    \o <<" "," "," "," "," "," "," ","-","n","|","-","-","n","u","m","=","i","n","t",":"," ","h","o","w"," ","m","a","n","y","\n">>
    \o <<" "," "," "," "," "," "," ","-","m","|","-","-","m","a","n","y","=","i","n","t",".",".",".",":"," ","e","a","c","h","\n">>
    \o <<" "," "," "," ">>

\* a first paragraph whose help holds the separator
\*   'fix: run: all\n'
\*   '    '
Doc_fix ==
       <<"f","i","x",":"," ","r","u","n",":"," ","a","l","l","\n">>
    \o <<" "," "," "," ">>

\* an Args body with a wrapped help line
\*   'wrap: wrap text\n'
\*   '\n'
\*   '    Args:\n'
\*   '       src: first\n'
\*   '           more\n'
\*   '       dst: second\n'
\*   '    '
Doc_wrap ==
       <<"w","r","a","p",":"," ","w","r","a","p"," ","t","e","x","t","\n">>
    \o <<"\n">>
    \o <<" "," "," "," ","A","r","g","s",":","\n">>
    \o <<" "," "," "," "," "," "," ","s","r","c",":"," ","f","i","r","s","t","\n">>
    \o <<" "," "," "," "," "," "," "," "," "," "," ","m","o","r","e","\n">>
    \o <<" "," "," "," "," "," "," ","d","s","t",":"," ","s","e","c","o","n","d","\n">>
    \o <<" "," "," "," ">>

\* an argument line whose help holds the separator
\*   'colon: c\n'
\*   '\n'
\*   '    Args:\n'
\*   '       src: first\n'
\*   '       dst: see: there\n'
\*   '    '
Doc_colon ==
       <<"c","o","l","o","n",":"," ","c","\n">>
    \o <<"\n">>
    \o <<" "," "," "," ","A","r","g","s",":","\n">>
    \o <<" "," "," "," "," "," "," ","s","r","c",":"," ","f","i","r","s","t","\n">>
    \o <<" "," "," "," "," "," "," ","d","s","t",":"," ","s","e","e",":"," ","t","h","e","r","e","\n">>
    \o <<" "," "," "," ">>

\* an argument line without the separator, after a good one
\*   'bad: b\n'
\*   '\n'
\*   '    Args:\n'
\*   '       br: x\n'
\*   '       noseparator\n'
\*   '    '
Doc_bad ==
       <<"b","a","d",":"," ","b","\n">>
    \o <<"\n">>
    \o <<" "," "," "," ","A","r","g","s",":","\n">>
    \o <<" "," "," "," "," "," "," ","b","r",":"," ","x","\n">>
    \o <<" "," "," "," "," "," "," ","n","o","s","e","p","a","r","a","t","o","r","\n">>
    \o <<" "," "," "," ">>

\* a flag with a second =
\*   'eq: e\n'
\*   '\n'
\*   '    Args:\n'
\*   '       -a=int=3: x\n'
\*   '    '
Doc_eq ==
       <<"e","q",":"," ","e","\n">>
    \o <<"\n">>
    \o <<" "," "," "," ","A","r","g","s",":","\n">>
    \o <<" "," "," "," "," "," "," ","-","a","=","i","n","t","=","3",":"," ","x","\n">>
    \o <<" "," "," "," ">>


\* a command with the repeated positional of testing alone
\*   'add: add files\n'
\*   '\n'
\*   '    Args:\n'
\*   '       files...: One or more files.\n'
\*   '    '
Doc_add ==
       <<"a","d","d",":"," ","a","d","d"," ","f","i","l","e","s","\n">>
    \o <<"\n">>
    \o <<" "," "," "," ","A","r","g","s",":","\n">>
    \o <<" "," "," "," "," "," "," ","f","i","l","e","s",".",".",".",":"," ","O","n","e"," ","o","r"," ","m","o","r","e"," ","f","i","l","e","s",".","\n">>
    \o <<" "," "," "," ">>

(***************************************************************************)
(* Values of a parsed namespace. Python values of different types are      *)
(* records with different fields, so that a str never equals a list.       *)
(***************************************************************************)

None == [none |-> TRUE]

Str(s) == [str |-> s]

IntVal(n) == [int |-> n]

Bool(b) == [bool |-> b]

List(xs) == [list |-> xs]

\* a handler function object: the n-th function that was decorated
Func(n) == [func |-> n]

(***************************************************************************)
(* The argument rules of _add_subcommand (src/geet.py lines 198-217)       *)
(***************************************************************************)

Dash == <<"-">>

Ellipsis == <<".", ".", ".">>

\* the length of "...", which lines 206 and 215 cut off
EllipsisLen == 3

IntName == <<"i", "n", "t">>

\* the -h/--help action argparse gives every parser (add_help=True); its
\* dest is SUPPRESS, so it puts nothing in the namespace
HelpAction ==
    [option_strings |-> << <<"-", "h">>, <<"-", "-", "h", "e", "l", "p">> >>,
     dest |-> <<>>, action |-> "help", nargs |-> "zero", type |-> "none",
     default |-> None, required |-> FALSE, help |-> <<>>]

\* Kwargs with "store" in the place of "store_true" at line 210: the flag that
\* has no "=" stores the argument string that follows it
KwargsStoring(arg) ==
    IF startswith(arg, Dash)
    THEN IF contains(arg, "=")
         THEN LET parts    == split(arg, <<"=">>)
                  atype    == parts[2]
                  repeated == endswith(atype, Ellipsis)
                  atype2   == IF repeated THEN droplast(atype, EllipsisLen) ELSE atype
              IN  IF Len(parts) # 2
                  THEN [err |-> "ValueError"]
                  ELSE [err     |-> "ok",
                        arg     |-> parts[1],
                        action  |-> IF repeated THEN "append" ELSE "store",
                        nargs   |-> "one",
                        type    |-> IF atype2 = IntName THEN "int" ELSE "'str'",
                        default |-> IF repeated THEN List(<<>>) ELSE None]
         ELSE [err |-> "ok", arg |-> arg, action |-> "store", nargs |-> "one",
               type |-> "str", default |-> None]
    ELSE IF endswith(arg, Ellipsis)
         THEN [err |-> "ok", arg |-> droplast(arg, EllipsisLen), action |-> "append",
               nargs |-> "plus", type |-> "none", default |-> None]
         ELSE [err |-> "ok", arg |-> arg, action |-> "store", nargs |-> "one",
               type |-> "str", default |-> None]

\* lines 199-216: the keyword arguments one "<arg>: <arghelp>" line compiles
\* to. type is "'str'" for the string "str" of line 201, which is not the
\* builtin str of line 212. err is "ValueError" when line 202 cannot unpack
\* arg.split('=') into two names.
Kwargs(arg) ==
    IF startswith(arg, Dash)
    THEN IF contains(arg, "=")
         THEN LET parts    == split(arg, <<"=">>)
                  atype    == parts[2]
                  repeated == endswith(atype, Ellipsis)
                  atype2   == IF repeated THEN droplast(atype, EllipsisLen) ELSE atype
              IN  IF Len(parts) # 2
                  THEN [err |-> "ValueError"]
                  ELSE [err     |-> "ok",
                        arg     |-> parts[1],
                        action  |-> IF repeated THEN "append" ELSE "store",
                        nargs   |-> "one",
                        type    |-> IF atype2 = IntName THEN "int" ELSE "'str'",
                        default |-> IF repeated THEN List(<<>>) ELSE None]
         ELSE [err |-> "ok", arg |-> arg, action |-> "store_true", nargs |-> "zero",
               type |-> "none", default |-> Bool(FALSE)]
    ELSE IF endswith(arg, Ellipsis)
         THEN [err |-> "ok", arg |-> droplast(arg, EllipsisLen), action |-> "append",
               nargs |-> "plus", type |-> "none", default |-> None]
         ELSE [err |-> "ok", arg |-> arg, action |-> "store", nargs |-> "one",
               type |-> "str", default |-> None]

\* s.lstrip('-')
RECURSIVE lstripDash(_)
lstripDash(s) == IF s # <<>> /\ s[1] = "-" THEN lstripDash(Tail(s)) ELSE s

\* s.replace('-', '_')
DashToUnderscore(s) == [i \in 1..Len(s) |-> IF s[i] = "-" THEN "_" ELSE s[i]]

\* every option string of the actions of a parser
AllOptionStrings(actions) ==
    UNION {{a.option_strings[j] : j \in 1..Len(a.option_strings)} :
           a \in {actions[i] : i \in 1..Len(actions)}}

\* argparse's add_argument(*names, **kw), as line 217 calls it on a parser that
\* has `actions`: the actions afterwards, or the exception it raises
\*   IndexError     names[0][0] or option_string[0] of an empty string
\*   ValueError     an option string without a leading '-', an option with an
\*                  empty dest, or a type that is not callable ('str')
\*   ArgumentError  an option string the parser already has
add_argument(actions, names, kw, help) ==
    LET empties  == {i \in 1..Len(names) : names[i] = <<>>}
        nodash   == {i \in 1..Len(names) : names[i] # <<>> /\ names[i][1] # "-"}
        positional == Len(names) = 1 /\ names[1] # <<>> /\ names[1][1] # "-"
        long     == {i \in 1..Len(names) : Len(names[i]) > 1 /\ names[i][2] = "-"}
        destOf   == IF long # {} THEN names[SetMin(long)] ELSE names[1]
        dest     == IF positional THEN names[1]
                    ELSE DashToUnderscore(lstripDash(destOf))
        made     == [option_strings |-> IF positional THEN <<>> ELSE names,
                     dest     |-> dest,
                     action   |-> kw.action,
                     nargs    |-> kw.nargs,
                     type     |-> kw.type,
                     default  |-> kw.default,
                     required |-> positional,
                     help     |-> help]
        bad      == empties \cup nodash
    IN  IF names[1] = <<>>
        THEN [err |-> "IndexError", actions |-> actions]
        ELSE IF positional
        THEN [err |-> "ok", actions |-> Append(actions, made)]
        ELSE IF bad # {}
        THEN [err |-> IF SetMin(bad) \in empties THEN "IndexError" ELSE "ValueError",
              actions |-> actions]
        ELSE IF dest = <<>> \/ kw.type = "'str'"
        THEN [err |-> "ValueError", actions |-> actions]
        ELSE IF \E i \in 1..Len(names) : names[i] \in AllOptionStrings(actions)
        THEN [err |-> "ArgumentError", actions |-> actions]
        ELSE [err |-> "ok", actions |-> Append(actions, made)]

\* lines 198-217: the loop over the argument lines. Each line is unpacked into
\* arg and arghelp (ValueError unless it has exactly two parts), compiled and
\* added; the first exception ends the loop, and the rules added before it
\* stay on the parser.
RECURSIVE AddArguments(_, _)
AddArguments(actions, pairs) ==
    IF pairs = <<>>
    THEN [err |-> "ok", actions |-> actions]
    ELSE IF Len(pairs[1]) # 2
    THEN [err |-> "ValueError", actions |-> actions]
    ELSE LET kw == Kwargs(pairs[1][1])
         IN  IF kw.err # "ok"
             THEN [err |-> kw.err, actions |-> actions]
             ELSE LET r == add_argument(actions, split(kw.arg, <<"|">>), kw, pairs[1][2])
                  IN  IF r.err # "ok" THEN r
                      ELSE AddArguments(r.actions, Tail(pairs))

(***************************************************************************)
(* The program's state                                                     *)
(***************************************************************************)

VARIABLES
    conflict_check,   \* whether the interpreter's add_parser rejects a name or
                      \* alias that is taken (Python 3.11 and later do, earlier
                      \* ones overwrite the entry); fixed for a run
    name_parser_map,  \* subparsers._name_parser_map: name or alias -> parser
    parsers,          \* the parsers add_parser has created, in creation order
    choices_actions,  \* subparsers._choices_actions: the top-level help's list
    decorated,        \* how many handler functions were decorated so far
    last,             \* the last call of _add_subcommand: its docstring, its
                      \* outcome and the registry it started from
    pc,               \* "import" while the module body runs, "ready" after it,
                      \* "exited" after main
    argv,             \* sys.argv[1:] of the run
    outcome,          \* how main ended
    status,           \* the process exit status
    called            \* the handler calls main made: <<function, namespace>>

vars == <<conflict_check, name_parser_map, parsers, choices_actions, decorated,
          last, pc, argv, outcome, status, called>>

(***************************************************************************)
(* The subcommand registry: argparse's add_parser and _add_subcommand      *)
(***************************************************************************)

\* the names a command is registered under: its name and its aliases
KeysOf(name, aliases) == {name} \cup {aliases[i] : i \in 1..Len(aliases)}

\* subparsers.add_parser(name, help=, description=, aliases=) of line 193 on
\* the registry reg. With conflict_check a taken name or alias raises
\* ArgumentError before anything is changed; without it the new parser takes
\* over every key it is given.
add_parser(reg, name, help, description, aliases) ==
    LET keys == KeysOf(name, aliases)
        id   == Len(reg.parsers) + 1
        made == [prog |-> name, description |-> description, aliases |-> aliases,
                 actions |-> <<HelpAction>>, defaults |-> <<>>]
    IN  IF conflict_check /\ keys \cap DOMAIN reg.map # {}
        THEN [err |-> "ArgumentError", reg |-> reg]
        ELSE [err |-> "ok",
              reg |-> [map     |-> [k \in DOMAIN reg.map \cup keys |->
                                       IF k \in keys THEN id ELSE reg.map[k]],
                       parsers |-> Append(reg.parsers, made),
                       choices |-> Append(reg.choices,
                                          [name |-> name, aliases |-> aliases,
                                           help |-> help])]]

\* lines 195-217 on the registry `made`, in which the parser id is new: the
\* Args: lines are compiled and added to it; an exception leaves the parser
\* with the rules added before
CompileArgs(made, id, args_list) ==
    IF args_list = <<>> THEN [err |-> "ok", reg |-> made]
    ELSE LET r == AddArguments(made.parsers[id].actions, ArgLines(args_list[1]))
         IN  [err |-> r.err, reg |-> [made EXCEPT !.parsers[id].actions = r.actions]]

\* lines 193-217 on the outcome `a` of add_parser: an exception of add_parser
\* ends the call; otherwise line 194 sets the parser's default func
WithParser(a, d, func) ==
    IF a.err # "ok" THEN a
    ELSE CompileArgs([a.reg EXCEPT !.parsers[Len(a.reg.parsers)].defaults = <<func>>],
                     Len(a.reg.parsers), d.args_list)

\* lines 172-217 with the docstring read into d
AddParsed(reg, d, func) ==
    IF Len(d.head) # 2
    THEN [err |-> "ValueError", reg |-> reg]                          \* line 172
    ELSE WithParser(add_parser(reg, d.head[1], d.head[2], d.longhelp, d.aliases), d, func)

\* _add_subcommand(subparsers, func) (lines 137-217) on the registry reg, for
\* a func whose __doc__ is docstr: the registry afterwards and "ok" or the
\* exception that ended the call
add_subcommand(reg, docstr, func) == AddParsed(reg, ParseDocstring(docstr), func)

Registry == [map |-> name_parser_map, parsers |-> parsers, choices |-> choices_actions]

(***************************************************************************)
(* argparse's parse_args, which main calls at line 261.  The operators     *)
(* follow ArgumentParser._parse_known_args: every argument string is       *)
(* classified as an option 'O', an argument 'A' or the separator '-', then *)
(* positionals and optionals are consumed alternately.                     *)
(***************************************************************************)

Digits == {"0", "1", "2", "3", "4", "5", "6", "7", "8", "9"}

AllDigits(s) == s # <<>> /\ \A i \in 1..Len(s) : s[i] \in Digits

DigitValue(c) == CHOOSE n \in 0..9 : <<"0", "1", "2", "3", "4", "5", "6", "7", "8", "9">>[n + 1] = c

RECURSIVE DecimalValue(_)
DecimalValue(s) ==
    IF s = <<>> THEN 0 ELSE 10 * DecimalValue(droplast(s, 1)) + DigitValue(s[Len(s)])

\* whether int(s) succeeds: an optional sign and decimal digits
IsIntLiteral(s) ==
    IF s # <<>> /\ s[1] \in {"-", "+"} THEN AllDigits(Tail(s)) ELSE AllDigits(s)

\* int(s)
ToInt(s) ==
    IF s[1] = "-" THEN 0 - DecimalValue(Tail(s))
    ELSE IF s[1] = "+" THEN DecimalValue(Tail(s))
    ELSE DecimalValue(s)

\* argparse's _negative_number_matcher: -digits or -digits.digits
IsNegativeNumber(s) ==
    /\ s # <<>> /\ s[1] = "-"
    /\ LET r == Tail(s)
           parts == split(r, <<".">>)
       IN  \/ AllDigits(r)
           \/ Len(parts) = 2 /\ AllDigits(parts[2]) /\ (parts[1] = <<>> \/ AllDigits(parts[1]))

\* s.split('=', 1)
SplitFirst(s, c) ==
    LET i == find(s, <<c>>)
    IN  IF i = 0 THEN <<s>> ELSE <<SubSeq(s, 1, i - 1), drop(s, i)>>

\* parser._option_string_actions: the action (its place in actions) that has
\* the option string, 0 when none has
ActionOf(actions, option) ==
    LET has == {i \in 1..Len(actions) :
                   \E j \in 1..Len(actions[i].option_strings) :
                       actions[i].option_strings[j] = option}
    IN  IF has = {} THEN 0 ELSE SetMin(has)

\* _get_option_tuples: the options an argument string that is no option
\* string itself may stand for. A string starting with -- stands for every
\* option string it is a prefix of (allow_abbrev); a string starting with one -
\* stands for the short option of its first two characters, the rest being the
\* option's explicit argument, and for every option string it is a prefix of.
\* An explicit argument is <<x>>, none is <<>>.
OptionTuples(actions, s) ==
    LET options == AllOptionStrings(actions)
        eq      == SplitFirst(s, "=")
        prefix  == eq[1]
        expl    == IF Len(eq) = 2 THEN <<eq[2]>> ELSE <<>>
    IN  IF s[2] = "-"
        THEN {[action |-> ActionOf(actions, o), option |-> o, explicit |-> expl] :
                 o \in {o \in options : startswith(o, prefix)}}
        ELSE {[action |-> ActionOf(actions, o), option |-> o,
               explicit |-> IF o = SubSeq(s, 1, 2) THEN <<drop(s, 2)>> ELSE <<>>] :
                 o \in {o \in options : o = SubSeq(s, 1, 2) \/ startswith(o, s)}}

\* _parse_optional: [kind |-> "A"] for an argument, [kind |-> "O", ...] for an
\* option (action 0: an option the parser does not know), [kind |-> "error"]
\* for an ambiguous abbreviation
ParseOptional(actions, s) ==
    LET eq     == SplitFirst(s, "=")
        tuples == OptionTuples(actions, s)
    IN  IF s = <<>> \/ s[1] # "-" THEN [kind |-> "A"]
        ELSE IF ActionOf(actions, s) # 0
        THEN [kind |-> "O", action |-> ActionOf(actions, s), option |-> s, explicit |-> <<>>]
        ELSE IF Len(s) = 1 THEN [kind |-> "A"]
        ELSE IF Len(eq) = 2 /\ ActionOf(actions, eq[1]) # 0
        THEN [kind |-> "O", action |-> ActionOf(actions, eq[1]), option |-> eq[1],
              explicit |-> <<eq[2]>>]
        ELSE IF Cardinality(tuples) > 1 THEN [kind |-> "error"]
        ELSE IF Cardinality(tuples) = 1
        THEN LET t == CHOOSE t \in tuples : TRUE
             IN  [kind |-> "O", action |-> t.action, option |-> t.option,
                  explicit |-> t.explicit]
        ELSE IF IsNegativeNumber(s)
                /\ ~\E o \in AllOptionStrings(actions) : IsNegativeNumber(o)
        THEN [kind |-> "A"]
        ELSE IF contains(s, " ") THEN [kind |-> "A"]
        ELSE [kind |-> "O", action |-> 0, option |-> s, explicit |-> <<>>]

DashDash == <<"-", "-">>

\* the classification of every argument string: after the first '--' all are
\* arguments
Classify(actions, args) ==
    [i \in 1..Len(args) |->
        IF \E j \in 1..(i - 1) : args[j] = DashDash THEN [kind |-> "A"]
        ELSE IF args[i] = DashDash THEN [kind |-> "-"]
        ELSE ParseOptional(actions, args[i])]

\* how many characters of text, from its start, are in the set allowed
RECURSIVE RunOf(_, _)
RunOf(text, allowed) ==
    IF text # <<>> /\ text[1] \in allowed THEN 1 + RunOf(Tail(text), allowed) ELSE 0

\* re.match of the concatenated nargs patterns of positionals, '(-*A-*)' for
\* nargs None and '(-*A[A-]*)' for nargs '+', against the kinds from the
\* start of text: the length of each group, the greedy way (the longest
\* group that lets the rest match), or "fail"
RECURSIVE MatchGroups(_, _)
MatchGroups(nargs, text) ==
    IF nargs = <<>> THEN [ok |-> TRUE, counts |-> <<>>]
    ELSE LET lead  == RunOf(text, {"-"})
             after == drop(text, lead + 1)
             more  == RunOf(after, IF nargs[1] = "plus" THEN {"A", "-"} ELSE {"-"})
             fits  == {k \in 0..more : MatchGroups(Tail(nargs), drop(after, k)).ok}
         IN  IF Len(text) <= lead \/ text[lead + 1] # "A" \/ fits = {}
             THEN [ok |-> FALSE, counts |-> <<>>]
             ELSE [ok |-> TRUE,
                   counts |-> <<lead + 1 + SetMax(fits)>>
                              \o MatchGroups(Tail(nargs), drop(after, SetMax(fits))).counts]

\* _match_arguments_partial: the argument counts of the longest prefix of the
\* positionals whose patterns match
RECURSIVE MatchPartial(_, _)
MatchPartial(nargs, text) ==
    IF nargs = <<>> THEN <<>>
    ELSE IF MatchGroups(nargs, text).ok THEN MatchGroups(nargs, text).counts
    ELSE MatchPartial(droplast(nargs, 1), text)

\* _get_value: the type conversion of one argument string
GetValue(action, s) ==
    IF action.type = "int"
    THEN IF IsIntLiteral(s) THEN [ok |-> TRUE, value |-> IntVal(ToInt(s))]
         ELSE [ok |-> FALSE, value |-> None]
    ELSE [ok |-> TRUE, value |-> Str(s)]

\* arg_strings.remove('--'): without the first '--'
RemoveDashDash(strings) ==
    LET at == IndexOfTrue([i \in 1..Len(strings) |-> strings[i] = DashDash])
    IN  IF at = 0 THEN strings ELSE Delete(strings, at)

\* _get_values: the value an action is called with; one converted string for
\* nargs None, a list of them otherwise
GetValues(action, arg_strings) ==
    LET strings == RemoveDashDash(arg_strings)
        each    == [i \in 1..Len(strings) |-> GetValue(action, strings[i])]
    IN  IF \E i \in 1..Len(each) : ~each[i].ok THEN [ok |-> FALSE, value |-> None]
        ELSE IF Len(strings) = 1 /\ action.nargs = "one" THEN each[1]
        ELSE [ok |-> TRUE, value |-> List([i \in 1..Len(each) |-> each[i].value])]

\* getattr(namespace, dest, None)
GetAttr(ns, dest) == IF dest \in DOMAIN ns THEN ns[dest] ELSE None

\* setattr(namespace, dest, value)
SetAttr(ns, dest, value) == [d \in DOMAIN ns \cup {dest} |-> IF d = dest THEN value ELSE ns[d]]

\* take_action: the parse state after the action (place k of actions) was
\* called with the argument strings. store sets the value, store_true sets
\* True, append appends the value (for nargs '+' a list) to a copy of the list
\* at dest, help prints the help and exits.
TakeAction(st, actions, k, arg_strings) ==
    LET action == actions[k]
        v      == GetValues(action, arg_strings)
        items  == IF GetAttr(st.ns, action.dest) = None THEN <<>>
                  ELSE GetAttr(st.ns, action.dest).list
        seen   == [st EXCEPT !.seen = @ \cup {k}]
    IN  IF st.halt # "" THEN st
        ELSE IF ~v.ok THEN [st EXCEPT !.halt = "error"]
        ELSE IF action.action = "help" THEN [st EXCEPT !.halt = "help"]
        ELSE IF action.action = "store_true"
        THEN [seen EXCEPT !.ns = SetAttr(@, action.dest, Bool(TRUE))]
        ELSE IF action.action = "append"
        THEN [seen EXCEPT !.ns = SetAttr(@, action.dest, List(Append(items, v.value)))]
        ELSE [seen EXCEPT !.ns = SetAttr(@, action.dest, v.value)]

\* the kinds of the argument strings from place i on, as a string of A, O, -
PatternFrom(kinds, i) == [j \in 1..(Len(kinds) - i + 1) |-> kinds[i + j - 1].kind]

\* take_action for each of the tuples <<action, argument strings>>, in order
RECURSIVE TakeActions(_, _, _)
TakeActions(st, actions, tuples) ==
    IF tuples = <<>> THEN st
    ELSE TakeActions(TakeAction(st, actions, tuples[1][1], tuples[1][2]), actions, Tail(tuples))

\* the parse state after actions took their arguments: at place i, without the
\* first n of the positionals that were left; unchanged when an action ended
\* the parse
Advance(taken, i, n) ==
    IF taken.halt # "" THEN taken
    ELSE [taken EXCEPT !.i = i, !.positionals = drop(@, n)]

\* consume_positionals, with the number of argument strings each matching
\* positional takes: each takes its slice of the arguments
TakeMatched(st, actions, args, counts) ==
    LET Start(j) == st.i + (IF j = 1 THEN 0
                            ELSE LET Sum[n \in 0..Len(counts)] ==
                                         IF n = 0 THEN 0 ELSE Sum[n - 1] + counts[n]
                                 IN  Sum[j - 1])
    IN  Advance(TakeActions(st, actions,
                            [j \in 1..Len(counts) |->
                               <<st.positionals[j],
                                 SubSeq(args, Start(j), Start(j) + counts[j] - 1)>>]),
                Start(Len(counts) + 1), Len(counts))

\* consume_positionals(start_index): the positionals that match the arguments
\* at st.i take them, in order, and leave the list of positionals
ConsumePositionals(st, actions, args, kinds) ==
    TakeMatched(st, actions, args,
                MatchPartial([j \in 1..Len(st.positionals) |-> actions[st.positionals[j]].nargs],
                             PatternFrom(kinds, st.i)))

\* the while loop of consume_optional: the tuples <<action, argument strings>>
\* the option at place i stands for and the place after them. An explicit
\* argument of a flag that takes none is read as further single-dash flags
\* (-kk); one argument is taken from the explicit argument or from the next
\* argument string. ok is FALSE for 'ignored explicit argument' and 'expected
\* one argument'.
RECURSIVE OptionChain(_, _, _, _, _, _, _)
OptionChain(actions, kinds, i, k, option, explicit, tuples) ==
    LET action == actions[k]
        next   == <<"-", explicit[1][1]>>
    IN  IF explicit # <<>>
        THEN IF action.nargs = "zero" /\ option[2] # "-" /\ explicit[1] # <<>>
             THEN IF ActionOf(actions, next) # 0
                  THEN OptionChain(actions, kinds, i, ActionOf(actions, next), next,
                                   IF Len(explicit[1]) = 1 THEN <<>> ELSE <<Tail(explicit[1])>>,
                                   Append(tuples, <<k, <<>>, <<>> >>))
                  ELSE [ok |-> FALSE, stop |-> i, tuples |-> tuples]
             ELSE IF action.nargs = "one"
             THEN [ok |-> TRUE, stop |-> i + 1,
                   tuples |-> Append(tuples, <<k, <<>>, explicit>>)]
             ELSE [ok |-> FALSE, stop |-> i, tuples |-> tuples]
        ELSE IF action.nargs = "zero"
        THEN [ok |-> TRUE, stop |-> i + 1, tuples |-> Append(tuples, <<k, <<>>, <<>> >>)]
        ELSE IF i + 1 <= Len(kinds) /\ kinds[i + 1].kind = "A"
        THEN [ok |-> TRUE, stop |-> i + 2, tuples |-> Append(tuples, <<k, <<i + 1>>, <<>> >>)]
        ELSE [ok |-> FALSE, stop |-> i, tuples |-> tuples]

\* consume_optional, with the chain of actions the option stands for: each is
\* called with its argument strings, the explicit one or those at the places
\* the chain names
TakeChain(st, actions, args, chain) ==
    IF ~chain.ok THEN [st EXCEPT !.halt = "error"]
    ELSE Advance(TakeActions(st, actions,
                             [j \in 1..Len(chain.tuples) |->
                                <<chain.tuples[j][1],
                                  IF chain.tuples[j][3] # <<>> THEN chain.tuples[j][3]
                                  ELSE [n \in 1..Len(chain.tuples[j][2]) |->
                                          args[chain.tuples[j][2][n]]]>>]),
                 chain.stop, 0)

\* consume_optional(start_index): an option the parser does not know goes to
\* the extras; a known one takes its arguments
ConsumeOptional(st, actions, args, kinds) ==
    IF kinds[st.i].action = 0
    THEN [st EXCEPT !.extras = Append(@, args[st.i]), !.i = @ + 1]
    ELSE TakeChain(st, actions, args,
                   OptionChain(actions, kinds, st.i, kinds[st.i].action, kinds[st.i].option,
                               kinds[st.i].explicit, <<>>))

\* the loop that consumes positionals and optionals alternately until the
\* last option string is passed; AfterPositionals is its second half, with
\* the state pos that consume_positionals returned and the place nextOpt of
\* the next option string
RECURSIVE ConsumeLoop(_, _, _, _)
RECURSIVE AfterPositionals(_, _, _, _, _, _)
AfterPositionals(st, pos, nextOpt, actions, args, kinds) ==
    IF pos.halt # "" THEN pos
    ELSE IF pos.i > st.i THEN ConsumeLoop(pos, actions, args, kinds)
    ELSE ConsumeLoop(ConsumeOptional([pos EXCEPT !.extras = @ \o SubSeq(args, pos.i, nextOpt - 1),
                                                 !.i = nextOpt],
                                     actions, args, kinds),
                     actions, args, kinds)

ConsumeLoop(st, actions, args, kinds) ==
    LET options == {j \in 1..Len(kinds) : kinds[j].kind = "O"}
        nextOpt == SetMin({j \in options : j >= st.i})
    IN  IF st.halt # "" \/ options = {} \/ st.i > SetMax(options) THEN st
        ELSE IF st.i = nextOpt
        THEN ConsumeLoop(ConsumeOptional(st, actions, args, kinds), actions, args, kinds)
        ELSE AfterPositionals(st, ConsumePositionals(st, actions, args, kinds), nextOpt,
                              actions, args, kinds)

\* the namespace a parser starts from: every action's default at its dest
\* (the help action has none), then the parser's own defaults where the
\* namespace has no such attribute yet (func, from set_defaults)
FuncName == <<"f", "u", "n", "c">>

InitialNamespace(parser) ==
    LET dests == {parser.actions[i].dest :
                     i \in {i \in 1..Len(parser.actions) : parser.actions[i].action # "help"}}
        first(d) == SetMin({i \in 1..Len(parser.actions) :
                               parser.actions[i].action # "help" /\ parser.actions[i].dest = d})
        byAction == [d \in dests |-> parser.actions[first(d)].default]
    IN  IF parser.defaults # <<>> /\ FuncName \notin dests
        THEN SetAttr(byAction, FuncName, Func(parser.defaults[1]))
        ELSE byAction

\* the end of _parse_known_args: what is left goes to the extras, and a
\* required action that was not seen is an error
CheckRequired(tail, actions, args) ==
    IF tail.halt # "" THEN tail
    ELSE IF \E k \in 1..Len(actions) : actions[k].required /\ k \notin tail.seen
    THEN [tail EXCEPT !.halt = "error"]
    ELSE [tail EXCEPT !.extras = @ \o SubSeq(args, tail.i, Len(args))]

\* after the loop: the positionals that are left consume what they match
AfterLoop(looped, actions, args, kinds) ==
    IF looped.halt # "" THEN looped
    ELSE CheckRequired(ConsumePositionals(looped, actions, args, kinds), actions, args)

\* _parse_known_args from the state st0 on the classified arguments; an
\* ambiguous option is an error before anything is consumed
ParseClassified(st0, actions, args, kinds) ==
    IF \E i \in 1..Len(kinds) : kinds[i].kind = "error" THEN [st0 EXCEPT !.halt = "error"]
    ELSE AfterLoop(ConsumeLoop(st0, actions, args, kinds), actions, args, kinds)

\* parser.parse_known_args(args) of a subcommand's parser: halt is "" when
\* the parse went through, "error" when the parser called error() (exit
\* status 2) and "help" when it printed its help (exit status 0); extras are
\* the argument strings nothing took
ParseKnownArgs(parser, args) ==
    ParseClassified([ns |-> InitialNamespace(parser), seen |-> {}, halt |-> "",
                     extras |-> <<>>, i |-> 1,
                     positionals |-> SelectSeq([k \in 1..Len(parser.actions) |-> k],
                                               LAMBDA k : parser.actions[k].option_strings = <<>>)],
                    parser.actions, args, Classify(parser.actions, args))

(***************************************************************************)
(* cli.parse_args() and main (src/geet.py lines 260-266)                   *)
(***************************************************************************)

\* Namespace(): no attribute at all
EmptyNamespace == [d \in {} |-> None]

\* cli.parse_args() on the registry reg, from place i of argv on, `extras`
\* counting the options before i that cli does not know. cli has the -h/--help
\* action and the subparsers action, which is not required and takes the first
\* argument and everything after it: the first argument names the parser
\* ('invalid choice' when it is no key of the map) and the rest is parsed by
\* that parser. exit is "ok", "error" (error(): usage message, exit status 2)
\* or "help" (help printed, exit status 0).

\* the subparsers action, with what the chosen parser returned
SubparserResult(sub, extras) ==
    IF sub.halt # "" THEN [exit |-> sub.halt, ns |-> EmptyNamespace]
    ELSE IF extras > 0 \/ sub.extras # <<>> THEN [exit |-> "error", ns |-> EmptyNamespace]
    ELSE [exit |-> "ok", ns |-> sub.ns]

RECURSIVE ParseArgs(_, _, _, _)
RECURSIVE ParseAt(_, _, _, _, _)
\* the argument string at place i, classified as o against cli's own options
ParseAt(reg, av, i, extras, o) ==
    IF o.kind = "O"
    THEN IF o.action = 0 THEN ParseArgs(reg, av, i + 1, extras + 1)
         ELSE IF OptionChain(<<HelpAction>>, Classify(<<HelpAction>>, av), i, o.action,
                             o.option, o.explicit, <<>>).ok
         THEN [exit |-> "help", ns |-> EmptyNamespace]
         ELSE [exit |-> "error", ns |-> EmptyNamespace]
    ELSE IF o.kind = "-" \/ av[i] \notin DOMAIN reg.map
    THEN [exit |-> "error", ns |-> EmptyNamespace]
    ELSE SubparserResult(ParseKnownArgs(reg.parsers[reg.map[av[i]]], drop(av, i)), extras)

ParseArgs(reg, av, i, extras) ==
    IF i > Len(av)
    THEN IF extras > 0 THEN [exit |-> "error", ns |-> EmptyNamespace]
         ELSE [exit |-> "ok", ns |-> EmptyNamespace]
    ELSE ParseAt(reg, av, i, extras, Classify(<<HelpAction>>, av)[i])

parse_args(reg, av) == ParseArgs(reg, av, 1, 0)

\* bool(x) of a namespace value
Truthy(v) ==
    IF v = None THEN FALSE
    ELSE IF "bool" \in DOMAIN v THEN v.bool
    ELSE IF "str" \in DOMAIN v THEN v.str # <<>>
    ELSE IF "list" \in DOMAIN v THEN v.list # <<>>
    ELSE IF "int" \in DOMAIN v THEN v.int # 0
    ELSE TRUE

\* lines 262-266 with what parse_args returned (or the exit it made)
Dispatch(args) ==
    IF args.exit = "error"
    THEN [outcome |-> "usage_error", status |-> 2, called |-> <<>>]
    ELSE IF args.exit = "help"
    THEN [outcome |-> "help", status |-> 0, called |-> <<>>]
    ELSE IF FuncName \notin DOMAIN args.ns
    THEN [outcome |-> "AttributeError", status |-> 1, called |-> <<>>]
    ELSE IF ~Truthy(args.ns[FuncName])
    THEN [outcome |-> "help", status |-> 0, called |-> <<>>]
    ELSE IF "func" \notin DOMAIN args.ns[FuncName]
    THEN [outcome |-> "TypeError", status |-> 1, called |-> <<>>]
    ELSE [outcome |-> "handler", status |-> 0,
          called |-> << <<args.ns[FuncName].func, args.ns>> >>]

\* main without parse_args' validation: the handler of the command the first
\* argument names is called, whatever the arguments after it are
RunMainLenient(reg, av) ==
    IF av # <<>> /\ av[1] \in DOMAIN reg.map
    THEN [outcome |-> "handler", status |-> 0,
          called |-> << <<reg.parsers[reg.map[av[1]]].defaults[1], EmptyNamespace>> >>]
    ELSE [outcome |-> "usage_error", status |-> 2, called |-> <<>>]

\* main() (lines 260-266) on the registry reg with sys.argv[1:] = av: how it
\* ends, the exit status and the handler calls it made
\*   "usage_error"     parse_args called error(): exit status 2
\*   "help"            help was printed: exit status 0
\*   "AttributeError"  line 263 read args.func of a namespace without it
\*   "TypeError"       line 266 called an args.func that is no function
\*   "handler"         line 266 called the handler, which returned
RunMain(reg, av) == Dispatch(parse_args(reg, av))

(***************************************************************************)
(* The inputs: the docstrings that are registered and the command lines    *)
(***************************************************************************)

\* the handlers the module body of geet.py decorates (lines 237-256), in order
ModuleDocs == <<Doc_testing, Doc_foobar>>

\* the docstrings of handlers decorated after the import, as geet_test.py
\* decorates testing and foobar again
Docs == {Doc_testing, Doc_foobar, Doc_tidy, Doc_note, Doc_count, Doc_fix,
         Doc_wrap, Doc_colon, Doc_bad, Doc_eq, Doc_add}

\* how many handlers are decorated after the import
MaxRegistrations == 2

\* how many argument strings follow the command
MaxArgs == 3

Tok_a == <<"a">>

Tok_b == <<"b">>

Tok_c == <<"c">>

Tok_3 == <<"3">>

Tok_k == <<"-","k">>

Tok_kill == <<"-","-","k","i","l","l">>

Tok_ki == <<"-","-","k","i">>

Tok_kk == <<"-","k","k">>

Tok_n == <<"-","n">>

Tok_comment == <<"-","-","c","o","m","m","e","n","t","=","h","e","l","l","o">>

Tok_h == <<"-","h">>

Cmd_testing == <<"t","e","s","t","i","n","g">>

Cmd_t == <<"t">>

Cmd_test == <<"t","e","s","t">>

Cmd_foobar == <<"f","o","o","b","a","r">>

Cmd_tidy == <<"t","i","d","y">>

Cmd_ty == <<"t","y">>

Cmd_note == <<"n","o","t","e">>

Cmd_count == <<"c","o","u","n","t">>

Cmd_fix == <<"f","i","x">>

Cmd_wrap == <<"w","r","a","p">>

Cmd_colon == <<"c","o","l","o","n">>

Cmd_bad == <<"b","a","d">>

Cmd_eq == <<"e","q">>

Cmd_add == <<"a","d","d">>

Cmd_nope == <<"n","o","p","e">>

\* the sequences over S of at most n elements
SeqsUpTo(S, n) == UNION {[1..k -> S] : k \in 0..n}

\* the command lines of Spec: no argument at all, or any command name, alias
\* or unknown name followed by one of a few argument lists
Commands == {Cmd_testing, Cmd_t, Cmd_test, Cmd_foobar, Cmd_tidy, Cmd_ty, Cmd_note,
             Cmd_count, Cmd_fix, Cmd_wrap, Cmd_colon, Cmd_bad, Cmd_eq, Cmd_add,
             Cmd_nope}

Invocations ==
    {<<>>, <<Tok_h>>} \cup
    {<<c>> \o rest : c \in Commands,
                     rest \in {<<>>, <<Tok_a>>, <<Tok_a, Tok_b>>, <<Tok_a, Tok_b, Tok_c>>,
                               <<Tok_comment>>}}

\* the docstrings and command lines of ParseSpec: fewer commands, every
\* argument list of at most MaxArgs strings
FlagDocs == {Doc_count}

ArgTokens == {Tok_a, Tok_3, Tok_k, Tok_kill, Tok_ki, Tok_kk, Tok_n, DashDash}

CommandLines ==
    {<<>>} \cup
    {<<c>> \o rest : c \in {Cmd_testing, Cmd_t, Cmd_count, Cmd_nope},
                     rest \in SeqsUpTo(ArgTokens, MaxArgs)}

(***************************************************************************)
(* The actions                                                             *)
(***************************************************************************)

NoCall == [docstr |-> <<>>, err |-> "none",
           before |-> [map |-> <<>>, parsers |-> <<>>, choices |-> <<>>]]

Init ==
    /\ conflict_check \in BOOLEAN
    /\ name_parser_map = <<>>
    /\ parsers = <<>>
    /\ choices_actions = <<>>
    /\ decorated = 0
    /\ last = NoCall
    /\ pc = "import"
    /\ argv = <<>>
    /\ outcome = "none"
    /\ status = 0
    /\ called = <<>>

\* @subcommand() on a function whose docstring is docstr (lines 220-224): one
\* call of _add_subcommand. An exception leaves the registry as the call had
\* changed it up to then.
Decorate(docstr) ==
    /\ \E r \in {add_subcommand(Registry, docstr, decorated + 1)} :
          /\ name_parser_map' = r.reg.map
          /\ parsers' = r.reg.parsers
          /\ choices_actions' = r.reg.choices
          /\ last' = [docstr |-> docstr, err |-> r.err, before |-> Registry]
    /\ decorated' = decorated + 1
    /\ UNCHANGED <<conflict_check, argv, outcome, status, called>>

\* the module body: testing, then foobar
Import ==
    /\ pc = "import"
    /\ Decorate(ModuleDocs[decorated + 1])
    /\ pc' = IF decorated + 1 = Len(ModuleDocs) THEN "ready" ELSE "import"

\* a handler decorated after the import, by a module that imports geet; the
\* caller goes on when _add_subcommand raises
Register(docstr) ==
    /\ pc = "ready"
    /\ decorated < Len(ModuleDocs) + MaxRegistrations
    /\ Decorate(docstr)
    /\ pc' = pc

\* main() with sys.argv[1:] = av
Main(av) ==
    /\ pc = "ready"
    /\ argv' = av
    /\ \E r \in {RunMain(Registry, av)} :
          /\ outcome' = r.outcome
          /\ status' = r.status
          /\ called' = r.called
    /\ pc' = "exited"
    /\ UNCHANGED <<conflict_check, name_parser_map, parsers, choices_actions, decorated, last>>

Next ==
    \/ Import
    \/ \E docstr \in Docs : Register(docstr)
    \/ \E av \in Invocations : Main(av)

Spec == Init /\ [][Next]_vars

ParseNext ==
    \/ Import
    \/ \E docstr \in FlagDocs : Register(docstr)
    \/ \E av \in CommandLines : Main(av)

ParseSpec == Init /\ [][ParseNext]_vars

(***************************************************************************)
(* What the properties below speak of                                      *)
(***************************************************************************)

Name_branch == <<"b","r","a","n","c","h">>

Name_files == <<"f","i","l","e","s">>

Name_kill == <<"k","i","l","l">>

Name_comment == <<"c","o","m","m","e","n","t">>

Text_hello == <<"h","e","l","l","o">>

\* the run's command token resolves to a registered command
Resolves == argv # <<>> /\ argv[1] \in DOMAIN name_parser_map

\* the parser the command token resolves to, and its rules
Resolved == parsers[name_parser_map[argv[1]]]

Rules == Resolved.actions

\* no "--" stands between the command token and argv[i]
BeforeSeparator(i) == \A j \in 2..(i - 1) : argv[j] # DashDash

\* argv[i] is written as a flag
IsFlagAt(i) ==
    /\ BeforeSeparator(i)
    /\ Len(argv[i]) > 1 /\ argv[i][1] = "-"
    /\ argv[i] # DashDash

\* argv[i] is a positional token: a word before the first "--", or anything
\* after it
IsPositionalAt(i) ==
    \/ BeforeSeparator(i) /\ ~IsFlagAt(i) /\ argv[i] # DashDash
    \/ ~BeforeSeparator(i)

PositionalPlaces == {i \in 2..Len(argv) : IsPositionalAt(i)}

\* the positional tokens of the run, in command-line order
PositionalTokens ==
    [k \in 1..Cardinality(PositionalPlaces) |->
        argv[CHOOSE i \in PositionalPlaces :
                Cardinality({j \in PositionalPlaces : j < i}) = k - 1]]

\* tok is, or abbreviates, an option string of the resolved command, or is a
\* cluster of its one-letter flags that take no value (-kk)
KnownFlag(tok) ==
    \/ \E o \in AllOptionStrings(Rules) : startswith(o, tok)
    \/ /\ tok[2] # "-"
       /\ \A i \in 2..Len(tok) :
             \E j \in 1..Len(Rules) :
                /\ Rules[j].nargs = "zero"
                /\ \E n \in 1..Len(Rules[j].option_strings) :
                      Rules[j].option_strings[n] = <<"-", tok[i]>>

UnknownFlag == \E i \in 2..Len(argv) : IsFlagAt(i) /\ ~KnownFlag(argv[i])

MissingPositional ==
    Cardinality(PositionalPlaces) < Cardinality({j \in 1..Len(Rules) : Rules[j].required})

\* an int flag is followed by a word that is no integer
ConversionFails ==
    \E i \in 2..(Len(argv) - 1) :
        /\ IsFlagAt(i)
        /\ \E j \in 1..Len(Rules) :
              /\ Rules[j].type = "int"
              /\ \E n \in 1..Len(Rules[j].option_strings) : Rules[j].option_strings[n] = argv[i]
        /\ IsPositionalAt(i + 1) /\ BeforeSeparator(i + 1)
        /\ ~IsIntLiteral(argv[i + 1])

ResolutionFails == argv # <<>> /\ argv[1] \notin DOMAIN name_parser_map

ValidationFails == Resolves /\ (UnknownFlag \/ MissingPositional \/ ConversionFails)

(***************************************************************************)
(* C3                                                                      *)
(***************************************************************************)

\* C3: when main has ended, a run whose command token does not resolve, or
\* whose arguments hold an unknown flag, lack a required positional or fail an
\* int conversion, has called no handler and ended in a usage error (exit
\* status 2); and a handler that was called is the one handler of the command
\* the command token resolves to, after its arguments passed all of these.
C3_HandlerOnlyAfterValidation ==
    pc = "exited" =>
        /\ (ResolutionFails \/ ValidationFails) =>
              called = <<>> /\ outcome = "usage_error" /\ status = 2
        /\ called # <<>> =>
              /\ Resolves /\ ~ValidationFails
              /\ Len(called) = 1
              /\ called[1][1] = Resolved.defaults[1]
        /\ outcome = "usage_error" => called = <<>>

\* a run of a registered command that an int conversion failure ended
C3_Witness ==
    /\ pc = "exited" /\ Resolves /\ ConversionFails
    /\ ~UnknownFlag /\ ~MissingPositional
    /\ outcome = "usage_error" /\ called = <<>>

(***************************************************************************)
(* C7                                                                      *)
(***************************************************************************)

\* the run called the handler of a command that has the rule of "-k|--kill: kill"
KillCommandRan ==
    /\ pc = "exited" /\ called # <<>> /\ Resolves
    /\ \E j \in 1..Len(Rules) : Rules[j].option_strings = <<Tok_k, Tok_kill>>

\* tok is -k, a cluster of -k (-kk), --kill or an abbreviation of --kill
KillForm(tok) ==
    \/ Len(tok) > 1 /\ tok[1] = "-" /\ \A i \in 2..Len(tok) : tok[i] = "k"
    \/ Len(tok) > 2 /\ startswith(Tok_kill, tok)

\* C7 (as the code has it): in a run that reaches the handler of testing, kill
\* is true exactly when an argument before the first "--" is -k, a cluster of
\* -k, --kill or an abbreviation of --kill (--k, --ki, --kil), and false
\* otherwise; the flag takes no token: with at most one "--" on the command
\* line, the positional tokens, in order, are bound to branch (the first) and
\* to files (the others, as one group).
C7_KillFlag ==
    KillCommandRan =>
        /\ called[1][2][Name_kill] =
              Bool(\E i \in 2..Len(argv) : IsFlagAt(i) /\ KillForm(argv[i]))
        /\ Cardinality({i \in 2..Len(argv) : argv[i] = DashDash}) <= 1 =>
              /\ called[1][2][Name_branch] = Str(PositionalTokens[1])
              /\ called[1][2][Name_files] =
                    List(<< List([k \in 1..(Len(PositionalTokens) - 1) |->
                                    Str(PositionalTokens[k + 1])]) >>)

\* C7 (as stated): kill is true exactly when -k or --kill is among the flags
\* of the command line (-kk counted as -k), and false when neither is.
C7_KillFlagAsStated ==
    KillCommandRan =>
        called[1][2][Name_kill] =
            Bool(\E i \in 2..Len(argv) : IsFlagAt(i) /\ argv[i] \in {Tok_k, Tok_kk, Tok_kill})

\* -k before two words: kill is true, the word after -k became branch
C7_Witness ==
    /\ KillCommandRan
    /\ Len(argv) = 4 /\ argv[2] = Tok_k /\ argv[3] = Tok_a /\ argv[4] = Tok_3
    /\ called[1][2][Name_kill] = Bool(TRUE)
    /\ called[1][2][Name_branch] = Str(Tok_a)

(***************************************************************************)
(* What the registration properties speak of                               *)
(***************************************************************************)

\* _add_subcommand has been called
Registered == last.err # "none"

\* the first paragraph of the last docstring, and where its first ": " is
LastHead == Paragraphs(last.docstr)[1]

LastName == SubSeq(LastHead, 1, find(LastHead, Separator) - 1)

LastHelp == drop(LastHead, find(LastHead, Separator) + Len(Separator) - 1)

LastHasArgs ==
    \E i \in 2..Len(Paragraphs(last.docstr)) : startswith(Paragraphs(last.docstr)[i], ArgsHeader)

LastHasAliases ==
    \E i \in 2..Len(Paragraphs(last.docstr)) : startswith(Paragraphs(last.docstr)[i], AliasesHeader)

\* the name and the aliases the last docstring declares
LastKeys == KeysOf(LastName, ParseDocstring(last.docstr).aliases)

\* the last call found none of its keys taken
LastKeysFree == LastKeys \cap DOMAIN last.before.map = {}

(***************************************************************************)
(* C1                                                                      *)
(***************************************************************************)

\* C1: a registration whose name or alias is already registered fails and
\* leaves every earlier key with its command; and the commands of the
\* registry have pairwise disjoint names and aliases.
C1_DuplicateRejected ==
    /\ Registered /\ find(LastHead, Separator) > 0 /\ ~LastKeysFree =>
          /\ last.err # "ok"
          /\ \A k \in DOMAIN last.before.map :
                k \in DOMAIN name_parser_map /\ name_parser_map[k] = last.before.map[k]
    /\ \A i, j \in 1..Len(choices_actions) :
          i # j => KeysOf(choices_actions[i].name, choices_actions[i].aliases) \cap
                   KeysOf(choices_actions[j].name, choices_actions[j].aliases) = {}

(***************************************************************************)
(* C2                                                                      *)
(***************************************************************************)

\* C2: for every command of the registry, its name and each of its aliases
\* resolve to one and the same parser (one handler, one list of rules), also
\* after later registrations.
C2_AliasesResolveAlike ==
    \A i \in 1..Len(choices_actions) :
        \A a \in KeysOf(choices_actions[i].name, choices_actions[i].aliases) :
            /\ a \in DOMAIN name_parser_map
            /\ name_parser_map[a] = name_parser_map[choices_actions[i].name]
            /\ parsers[name_parser_map[a]].prog = choices_actions[i].name

(***************************************************************************)
(* C4                                                                      *)
(***************************************************************************)

\* C4: a run without any argument ends with the top-level help printed, exit
\* status 0 and no handler called.
C4_NoCommandPrintsHelp ==
    pc = "exited" /\ argv = <<>> =>
        outcome = "help" /\ status = 0 /\ called = <<>>

(***************************************************************************)
(* C5                                                                      *)
(***************************************************************************)

\* C5: for the command of 'files...: One or more files.', a run without a
\* token for files is a usage error, and a run with words for it calls the
\* handler with files bound to the flat list of these words, in order.
C5_RepeatedPositional ==
    pc = "exited" /\ Resolves /\ argv[1] = Cmd_add
    /\ (\A i \in 2..Len(argv) : ~IsFlagAt(i)) =>
        IF Len(argv) = 1
        THEN outcome = "usage_error" /\ called = <<>>
        ELSE /\ called # <<>>
             /\ called[1][2][Name_files] = List([k \in 1..(Len(argv) - 1) |-> Str(argv[k + 1])])

(***************************************************************************)
(* C6                                                                      *)
(***************************************************************************)

\* C6: registering '-c|--comment=string: text' under a free name succeeds
\* and gives the command a rule reachable as -c and --comment; a run with
\* --comment=hello binds comment to "hello", a run without it to None.
C6_StringFlag ==
    /\ Registered /\ last.docstr = Doc_note /\ LastKeysFree =>
          /\ last.err = "ok"
          /\ \E j \in 1..Len(parsers[name_parser_map[Cmd_note]].actions) :
                parsers[name_parser_map[Cmd_note]].actions[j].option_strings =
                    << <<"-", "c">>, <<"-", "-">> \o Name_comment >>
    /\ pc = "exited" /\ Resolves /\ argv[1] = Cmd_note /\ Len(argv) <= 2
       /\ (Len(argv) = 2 => argv[2] = Tok_comment) =>
          /\ called # <<>>
          /\ called[1][2][Name_comment] = IF Len(argv) = 2 THEN Str(Text_hello) ELSE None

(***************************************************************************)
(* C8                                                                      *)
(***************************************************************************)

\* C8: registering, under a free name, a docstring whose first paragraph is
\* '<name>: <help>' and that has no Args: and no Aliases: paragraph succeeds;
\* the command has no rule besides -h, no alias, and its short help is all
\* of <help>, the text after the first ": ".
C8_PlainDocstring ==
    Registered /\ find(LastHead, Separator) > 0 /\ ~LastHasArgs /\ ~LastHasAliases
    /\ LastKeysFree =>
        /\ last.err = "ok"
        /\ LastName \in DOMAIN name_parser_map
        /\ parsers[name_parser_map[LastName]].actions = <<HelpAction>>
        /\ parsers[name_parser_map[LastName]].aliases = <<>>
        /\ choices_actions[Len(choices_actions)] =
              [name |-> LastName, aliases |-> <<>>, help |-> LastHelp]

(***************************************************************************)
(* C9                                                                      *)
(***************************************************************************)

\* the lines of the Args: body of the last docstring: continuation lines
\* joined, each line stripped, the blank ones dropped
LastArgLines ==
    LET raw == split(resub(ParseDocstring(last.docstr).args_list[1]), <<"\n">>)
        NonEmpty(x) == x # <<>>
    IN  SelectSeq([i \in 1..Len(raw) |-> strip(raw[i])], NonEmpty)

\* the <spec> of a line: the text before its first ": "
SpecOf(line) == SubSeq(line, 1, find(line, Separator) - 1)

\* a <spec> the rule grammar covers: a positional, a flag without "=", or a
\* flag with "=int" or "=int..."
Compilable(spec) ==
    \/ ~contains(spec, "=")
    \/ endswith(spec, <<"=">> \o IntName)
    \/ endswith(spec, <<"=">> \o IntName \o Ellipsis)

\* the <spec> a rule was compiled from, up to its "=" and its "..."
RuleSpec(rule) ==
    IF rule.option_strings = <<>> THEN rule.dest ELSE join(rule.option_strings, <<"|">>)

SpecName(spec) ==
    LET s == SplitFirst(spec, "=")[1]
    IN  IF endswith(s, Ellipsis) THEN droplast(s, EllipsisLen) ELSE s

\* C9: registering, under a free name, a docstring whose Args: lines each
\* hold a ": " and a <spec> of the grammar succeeds, and the command has one
\* rule per line, in line order, each made from the text before the line's
\* first ": ".
C9_OneRulePerLine ==
    Registered /\ find(LastHead, Separator) > 0 /\ LastHasArgs /\ LastKeysFree
    /\ (\A k \in 1..Len(LastArgLines) :
           find(LastArgLines[k], Separator) > 0 /\ Compilable(SpecOf(LastArgLines[k]))) =>
        /\ last.err = "ok"
        /\ LET rules == Tail(parsers[name_parser_map[LastName]].actions)
           IN  /\ Len(rules) = Len(LastArgLines)
               /\ \A k \in 1..Len(rules) :
                     RuleSpec(rules[k]) = SpecName(SpecOf(LastArgLines[k]))

(***************************************************************************)
(* C10                                                                     *)
(***************************************************************************)

\* C10: a call of _add_subcommand that fails while it compiles the Args:
\* lines leaves the registry as it was before the call.
C10_AllOrNothing ==
    Registered /\ last.err # "ok" /\ find(LastHead, Separator) > 0 /\ LastHasArgs
    /\ LastKeysFree =>
        Registry = last.before

=============================================================================
